---- MODULE Spec2Model ----
(***************************************************************************)
(* Model of pitchfork_scraper.py: get_track (one entry -> (title, artist)) *)
(* and scrape_songs (the page loop), followed by the module-level write of *)
(* songs.json.  Strings are sequences of one-character strings; the two    *)
(* curly double quotes are the characters "ldquo" and "rdquo".             *)
(***************************************************************************)
EXTENDS Integers, Sequences, FiniteSets

VARIABLES pc, start_page, end_page, verbose, page_no, all_tracks,
          fetchLog, stdout, exc, songs, outfile, item_link, track

vars == <<pc, start_page, end_page, verbose, page_no, all_tracks,
          fetchLog, stdout, exc, songs, outfile, item_link, track>>

(* ------------------------------ bounds --------------------------------- *)
MaxPage == 3        \* page numbers passed as arguments range up to MaxPage
MaxEntries == 2     \* entries matched on one page
MaxArtists == 2     \* <li> items of one entry

(* --------------------------- Python values ----------------------------- *)
None == [tag |-> "None"]
PyStr(s) == [tag |-> "str", s |-> s]
PyInt(n) == [tag |-> "int", val |-> n]
Tag(content) == [tag |-> "Tag", content |-> content]

\* isinstance(v, int), lines 61 and 67
IsInstanceInt(v) == v.tag = "int"

(* ------------------------------ strings -------------------------------- *)
RECURSIVE Concat(_)
Concat(ss) == IF ss = <<>> THEN <<>> ELSE Head(ss) \o Concat(Tail(ss))

\* a separator without the space
Separator_Comma == <<",">>

\* the separator of line 36
Separator == <<",", " ">>

\* the characters deleted by line 32
QuoteChars == {"ldquo", "rdquo", "\""}

NotQuote(c) == c \notin QuoteChars

\* str.translate with a table mapping each quote character to None: deletion
StripQuotes(s) == SelectSeq(s, NotQuote)

\* sep.join(parts): no separator before the first part
RECURSIVE Join(_, _)
Join(sep, parts) ==
    IF parts = <<>> THEN <<>>
    ELSE IF Len(parts) = 1 THEN parts[1]
    ELSE parts[1] \o sep \o Join(sep, Tail(parts))

(* ------------------------------ get_track ------------------------------ *)
Raise(e) == [tag |-> "raise", exc |-> e]
Return(v) == [tag |-> "return", val |-> v]

\* [artist.string for artist in artist_list]
LiStrings(lis) == [i \in DOMAIN lis |-> lis[i]]

AllStr(vs) == \A i \in DOMAIN vs : vs[i].tag = "str"

\* an extraction that fills in an empty field where an element is missing
get_track_Lenient(link) ==
    IF link.h2 # None /\ link.h2.content # None /\ link.ul # None
       /\ ~AllStr(LiStrings(link.ul.content))
    THEN Raise("TypeError")
    ELSE Return(<<IF link.h2 = None \/ link.h2.content = None THEN <<>>
                  ELSE StripQuotes(link.h2.content.s),
                  IF link.ul = None \/ ~AllStr(LiStrings(link.ul.content))
                  THEN <<>>
                  ELSE Join(Separator, [i \in DOMAIN link.ul.content |->
                                          link.ul.content[i].s])>>)

\* lines 30-38; attribute access on None raises AttributeError, join over a
\* None item raises TypeError
get_track(link) ==
    IF link.h2 = None THEN Raise("AttributeError")
    ELSE IF link.h2.content = None THEN Raise("AttributeError")
    ELSE IF link.ul = None THEN Raise("AttributeError")
    ELSE IF ~AllStr(LiStrings(link.ul.content)) THEN Raise("TypeError")
    ELSE Return(<<StripQuotes(link.h2.content.s),
                  Join(Separator, [i \in DOMAIN link.ul.content |->
                                      link.ul.content[i].s])>>)

(* ------------------------------ entries -------------------------------- *)
SeqsUpTo(S, n) == UNION {[1..k -> S] : k \in 0..n}

TitleTexts == { <<"ldquo", "S", "rdquo", " ", "\"", "N", "\"">>,
                <<"S">>,
                <<>> }

ArtistTexts == { <<"a">>, <<"b", ",", " ", "c">> }

LiValues == {PyStr(a) : a \in ArtistTexts} \cup {None}

H2Values == {None, Tag(None)} \cup {Tag(PyStr(t)) : t \in TitleTexts}

UlValues == {None} \cup {Tag(lis) : lis \in SeqsUpTo(LiValues, MaxArtists)}

\* every shape of <a> element get_track can be handed
Entries == [h2 : H2Values, ul : UlValues]

Entry(h2, lis) == [h2 |-> h2, ul |-> Tag(lis)]

\* the entries that occur on the pages of the listing
PageEntries ==
    { Entry(Tag(PyStr(<<"ldquo", "S", "rdquo">>)),
            <<PyStr(<<"a">>), PyStr(<<"b">>)>>),
      Entry(Tag(PyStr(<<"T">>)), <<>>),
      Entry(None, <<PyStr(<<"a">>)>>),
      Entry(Tag(None), <<PyStr(<<"a">>)>>),
      [h2 |-> Tag(PyStr(<<"T">>)), ul |-> None] }

\* soup.find_all(...) results: the matched links of one page, document order;
\* a page holds at most one entry that is not of the expected shape
UnexpectedShapes(body) ==
    Cardinality({j \in DOMAIN body : get_track(body[j]).tag = "raise"})

PageBodies ==
    UNION {IF UnexpectedShapes(body) <= 1 THEN {body} ELSE {} :
              body \in SeqsUpTo(PageEntries, MaxEntries)}

(* --------------------------- fetch outcomes ---------------------------- *)
FetchOK(body) == [exc |-> "none", code |-> 200, body |-> body]
FetchHTTPError(code) == [exc |-> "HTTPError", code |-> code, body |-> <<>>]
FetchURLError == [exc |-> "URLError", code |-> 0, body |-> <<>>]

HTTPErrorCodes == {404, 500}

(* ------------------------------ arguments ------------------------------ *)
PageArgs == {PyInt(n) : n \in (-1)..MaxPage} \cup {PyStr(<<"1">>)}

Header == <<"title", "artist">>

\* songs before scrape_songs has returned (a returned list is never empty)
NoResult == <<>>

(* --------------------------- notifications ----------------------------- *)
Progress(p) == [kind |-> "progress", page |-> p]
Finished(p) == [kind |-> "finished", page |-> p]
LimitReached(p) == [kind |-> "limit", page |-> p]

\* a print that is not guarded by verbose
Emit_Always(v, out, msg) == Append(out, msg)

\* if verbose: print(...)
Emit(v, out, msg) == IF v THEN Append(out, msg) ELSE out

(* ------------------------------ json.dump ------------------------------ *)
JsonString(s) == [json |-> "string", val |-> s]
JsonArray(items) == [json |-> "array", items |-> items]

\* tuples and lists both serialise as arrays, str as string
JsonDump(rows) ==
    JsonArray([i \in DOMAIN rows |->
                  JsonArray([j \in DOMAIN rows[i] |-> JsonString(rows[i][j])])])

NoFile == [json |-> "absent"]

(* ------------------------------ the loop ------------------------------- *)
\* a lower bound that lets page 0 through
StartTooLow_Zero(s) == s.val < 0

\* line 63 and line 69
StartTooLow(s) == s.val <= 0
EndTooLow(e, s) == e.val < s.val

\* lines 61-70
RangeError(s, e) ==
    IF ~IsInstanceInt(s) THEN TRUE
    ELSE IF StartTooLow(s) THEN TRUE
    ELSE IF ~IsInstanceInt(e) THEN TRUE
    ELSE EndTooLow(e, s)

\* a counter that skips a page, and one that does not advance
NextPage_Skips(p) == PyInt(p.val + 2)
NextPage_Stays(p) == p

\* line 97
NextPage(p) == PyInt(p.val + 1)

\* line 94: the list comprehension stops at the first entry that raises
RECURSIVE Tracks(_)
Tracks(links) ==
    IF links = <<>> THEN Return(<<>>)
    ELSE LET t == get_track(Head(links)) IN
         IF t.tag = "raise" THEN t
         ELSE LET rest == Tracks(Tail(links)) IN
              IF rest.tag = "raise" THEN rest
              ELSE Return(<<t.val>> \o rest.val)

\* the pages on which line 94 completes, and those on which it raises
ExtractableBodies ==
    UNION {IF Tracks(body).tag = "return" THEN {body} ELSE {} :
              body \in PageBodies}
RaisingBodies ==
    UNION {IF Tracks(body).tag = "raise" THEN {body} ELSE {} :
              body \in PageBodies}

\* an accumulation that puts the new records in front
Accumulate_Prepends(all, tracks) == tracks \o all

\* line 95
Accumulate(all, tracks) == all \o tracks

LogFetch(log, p, outcome) ==
    Append(log, [page |-> p, exc |-> outcome.exc, code |-> outcome.code,
                 body |-> outcome.body])

Idle == /\ item_link = [h2 |-> None, ul |-> None]
        /\ track = None

Init ==
    /\ pc = "start"
    /\ start_page \in PageArgs
    /\ end_page \in PageArgs
    /\ verbose \in BOOLEAN
    /\ page_no = None
    /\ all_tracks = <<>>
    /\ fetchLog = <<>>
    /\ stdout = <<>>
    /\ exc = "none"
    /\ songs = NoResult
    /\ outfile = NoFile
    /\ Idle

\* lines 57-70: entry into scrape_songs up to the loop
Call ==
    /\ pc = "start"
    /\ all_tracks' = <<Header>>
    /\ page_no' = start_page
    /\ IF RangeError(start_page, end_page)
       THEN pc' = "raised" /\ exc' = "ValueError"
       ELSE pc' = "loop" /\ exc' = exc
    /\ UNCHANGED <<start_page, end_page, verbose, fetchLog, stdout, songs,
                   outfile, item_link, track>>

\* lines 72-97, one iteration whose urlopen succeeds and every entry extracts
IterPage ==
    /\ pc = "loop"
    /\ page_no.val <= end_page.val
    /\ \E body \in ExtractableBodies :
         /\ fetchLog' = LogFetch(fetchLog, page_no, FetchOK(body))
         /\ stdout' = Emit(verbose, stdout, Progress(page_no.val))
         /\ all_tracks' = Accumulate(all_tracks, Tracks(body).val)
         /\ page_no' = NextPage(page_no)
    /\ UNCHANGED <<pc, start_page, end_page, verbose, exc, songs, outfile,
                   item_link, track>>

\* lines 72-94, an iteration in which get_track raises on some entry
IterEntryRaises ==
    /\ pc = "loop"
    /\ page_no.val <= end_page.val
    /\ \E body \in RaisingBodies :
         /\ fetchLog' = LogFetch(fetchLog, page_no, FetchOK(body))
         /\ stdout' = Emit(verbose, stdout, Progress(page_no.val))
         /\ exc' = Tracks(body).exc
         /\ pc' = "raised"
    /\ UNCHANGED <<start_page, end_page, verbose, page_no, all_tracks, songs,
                   outfile, item_link, track>>

\* an HTTPError handler that goes on with the next page instead of breaking
IterHTTPError_Continues ==
    /\ pc = "loop"
    /\ page_no.val <= end_page.val
    /\ \E code \in HTTPErrorCodes :
         fetchLog' = LogFetch(fetchLog, page_no, FetchHTTPError(code))
    /\ stdout' = Emit(verbose, stdout, Finished(page_no.val - 1))
    /\ page_no' = NextPage(page_no)
    /\ UNCHANGED <<pc, start_page, end_page, verbose, all_tracks, exc, songs,
                   outfile, item_link, track>>

\* lines 76, 79-82 and 102: urlopen raises HTTPError, the loop breaks and the
\* function returns
IterHTTPError ==
    /\ pc = "loop"
    /\ page_no.val <= end_page.val
    /\ \E code \in HTTPErrorCodes :
         fetchLog' = LogFetch(fetchLog, page_no, FetchHTTPError(code))
    /\ stdout' = Emit(verbose, stdout, Finished(page_no.val - 1))
    /\ songs' = all_tracks
    /\ pc' = "returned"
    /\ UNCHANGED <<start_page, end_page, verbose, page_no, all_tracks, exc,
                   outfile, item_link, track>>

\* line 76: urlopen raises an error that is not an HTTPError (URLError for a
\* timeout or a DNS failure); no handler, it leaves scrape_songs
IterURLError ==
    /\ pc = "loop"
    /\ page_no.val <= end_page.val
    /\ fetchLog' = LogFetch(fetchLog, page_no, FetchURLError)
    /\ exc' = "URLError"
    /\ pc' = "raised"
    /\ UNCHANGED <<start_page, end_page, verbose, page_no, all_tracks, stdout,
                   songs, outfile, item_link, track>>

\* lines 72, 98-102: the while condition is false, the else clause runs
LoopElse ==
    /\ pc = "loop"
    /\ ~(page_no.val <= end_page.val)
    /\ stdout' = Emit(verbose, stdout, LimitReached(end_page.val))
    /\ songs' = all_tracks
    /\ pc' = "returned"
    /\ UNCHANGED <<start_page, end_page, verbose, page_no, all_tracks,
                   fetchLog, exc, outfile, item_link, track>>

\* lines 107-108
WriteFile ==
    /\ pc = "returned"
    /\ outfile' = JsonDump(songs)
    /\ pc' = "written"
    /\ UNCHANGED <<start_page, end_page, verbose, page_no, all_tracks,
                   fetchLog, stdout, exc, songs, item_link, track>>

Next ==
    \/ Call
    \/ IterPage
    \/ IterEntryRaises
    \/ IterHTTPError
    \/ IterURLError
    \/ LoopElse
    \/ WriteFile

Spec == Init /\ [][Next]_vars

\* the loop body has no blocking point other than the fetch, which is assumed
\* to return or raise
FairSpec == Spec /\ WF_vars(Next)

(* ------------------- get_track on its own, all entry shapes ------------ *)
InitTrack ==
    /\ pc = "get_track"
    /\ item_link \in Entries
    /\ track = None
    /\ start_page = PyInt(1)
    /\ end_page = PyInt(1)
    /\ verbose = FALSE
    /\ page_no = None
    /\ all_tracks = <<>>
    /\ fetchLog = <<>>
    /\ stdout = <<>>
    /\ exc = "none"
    /\ songs = NoResult
    /\ outfile = NoFile

\* lines 16-38
GetTrack ==
    /\ pc = "get_track"
    /\ track' = get_track(item_link)
    /\ pc' = "track_done"
    /\ UNCHANGED <<start_page, end_page, verbose, page_no, all_tracks,
                   fetchLog, stdout, exc, songs, outfile, item_link>>

NextTrack == GetTrack

SpecTrack == InitTrack /\ [][NextTrack]_vars


(* ======================= derived notions ================================ *)
IsPrefix(a, b) == Len(a) <= Len(b) /\ SubSeq(b, 1, Len(a)) = a

CountSep(s) ==
    Cardinality({i \in 1..(Len(s) - 1) : s[i] = "," /\ s[i + 1] = " "})

\* the arguments satisfy the documented precondition
ValidRange(s, e) ==
    /\ s.tag = "int" /\ s.val >= 1
    /\ e.tag = "int" /\ e.val >= s.val

\* the entry lacks the <h2>, the <h2>'s text or the <ul>
Malformed(link) ==
    \/ link.h2 = None
    \/ link.h2.content = None
    \/ link.ul = None

\* the records of the first n logged pages, page by page, document order
RECURSIVE RecordsOfPages(_, _)
RecordsOfPages(log, n) ==
    IF n = 0 THEN <<>>
    ELSE RecordsOfPages(log, n - 1)
         \o [j \in DOMAIN log[n].body |-> get_track(log[n].body[j]).val]

IsNotFound(f) == f.exc = "HTTPError" /\ f.code = 404

Returned == pc \in {"returned", "written"}

OfKind(out, kinds) == SelectSeq(out, LAMBDA m : m.kind \in kinds)

(* ============================ claims =================================== *)

\* C1: when the fetch of page p raises HTTP 404 after pages start_page..p-1
\* were fetched, scrape_songs returns without raising, the result is the
\* header followed by exactly the records of pages start_page..p-1 in page
\* order, and no fetch follows the one of page p.
C1_NotFoundEndsNormally ==
    \A p \in DOMAIN fetchLog :
        IsNotFound(fetchLog[p]) =>
            /\ p = Len(fetchLog)
            /\ Returned
            /\ exc = "none"
            /\ \A i \in 1..(p - 1) : fetchLog[i].exc = "none"
            /\ songs = <<Header>> \o RecordsOfPages(fetchLog, p - 1)

C1_Witness ==
    /\ pc = "returned"
    /\ Len(fetchLog) = 3
    /\ IsNotFound(fetchLog[3])
    /\ Len(fetchLog[1].body) = 2
    /\ Len(songs) = 4

\* C2: a fetch failure other than not-found (URLError, or an HTTPError whose
\* code is not 404) ends scrape_songs with an exception: it is the last
\* fetch, nothing is returned and the call does not end normally.
C2_OtherFailuresPropagate ==
    \A i \in DOMAIN fetchLog :
        (fetchLog[i].exc # "none" /\ ~IsNotFound(fetchLog[i])) =>
            /\ i = Len(fetchLog)
            /\ pc = "raised"
            /\ exc # "none"
            /\ songs = NoResult

\* C3: with arguments outside the valid range, the call raises ValueError
\* with no fetch performed, nothing but the header in all_tracks, nothing
\* returned and no file written.
C3_InvalidRangeFailsFast ==
    (pc # "start" /\ ~ValidRange(start_page, end_page)) =>
        /\ pc = "raised"
        /\ exc = "ValueError"
        /\ fetchLog = <<>>
        /\ stdout = <<>>
        /\ all_tracks = <<Header>>
        /\ songs = NoResult
        /\ outfile = NoFile

C3_Witness ==
    /\ pc = "raised"
    /\ exc = "ValueError"
    /\ start_page = PyInt(3)
    /\ end_page = PyInt(2)

\* C4: songs.json exists only after scrape_songs ended normally, that is with
\* the page bound exhausted or with a not-found fetch, never after a failure;
\* its content is then the whole returned sequence, header pair first.
C4_OutputOnlyAfterNormalEnd ==
    outfile # NoFile =>
        /\ pc = "written"
        /\ exc = "none"
        /\ \/ /\ page_no.val > end_page.val
              /\ \A i \in DOMAIN fetchLog : fetchLog[i].exc = "none"
           \/ /\ fetchLog # <<>>
              /\ IsNotFound(fetchLog[Len(fetchLog)])
        /\ outfile.json = "array"
        /\ Len(outfile.items) = Len(songs)
        /\ outfile.items[1] =
               JsonArray(<<JsonString("title"), JsonString("artist")>>)
        /\ \A i \in DOMAIN songs :
               outfile.items[i] = JsonArray(<<JsonString(songs[i][1]),
                                              JsonString(songs[i][2])>>)

\* C5: a page holding an entry without <h2>, without <h2> text or without
\* <ul> makes the whole call raise (AttributeError): nothing is returned or
\* written, and all_tracks holds nothing of that page.
C5_MalformedEntryAborts ==
    \A i \in DOMAIN fetchLog :
        (fetchLog[i].exc = "none"
         /\ \E j \in DOMAIN fetchLog[i].body : Malformed(fetchLog[i].body[j]))
        =>
            /\ i = Len(fetchLog)
            /\ pc = "raised"
            /\ exc = "AttributeError"
            /\ songs = NoResult
            /\ outfile = NoFile
            /\ all_tracks = <<Header>> \o RecordsOfPages(fetchLog, i - 1)

C5_Witness ==
    /\ pc = "raised"
    /\ exc = "AttributeError"
    /\ Len(fetchLog) = 2
    /\ Len(fetchLog[1].body) = 1
    /\ Len(fetchLog[2].body) = 2
    /\ ~Malformed(fetchLog[2].body[1])
    /\ fetchLog[2].body[2].ul = None
    /\ Len(all_tracks) = 2

\* C6: the k-th fetch of a call is for page start_page+k-1 and for no page
\* beyond end_page (so: increasing by 1, no page twice, none skipped).
C6_SequentialPages ==
    \A k \in DOMAIN fetchLog :
        /\ fetchLog[k].page = PyInt(start_page.val + k - 1)
        /\ fetchLog[k].page.val <= end_page.val

C6_Witness ==
    /\ Len(fetchLog) = 3
    /\ start_page = PyInt(1)
    /\ end_page = PyInt(3)

\* C7: all_tracks starts as exactly the header and only grows at its end, a
\* completed page appending that page's records in document order; the
\* returned sequence starts with the header and, when the loop ended by
\* passing end_page, continues with the records of pages
\* start_page..end_page in page order.
C7_AppendOnlyWithHeader ==
    /\ [](pc # "start" => (all_tracks # <<>> /\ all_tracks[1] = Header))
    /\ [](pc = "loop" /\ fetchLog = <<>> => all_tracks = <<Header>>)
    /\ [][pc = "loop" =>
            /\ IsPrefix(all_tracks, all_tracks')
            /\ (page_no' # page_no =>
                  all_tracks' = all_tracks \o
                      [j \in DOMAIN fetchLog'[Len(fetchLog')].body |->
                          get_track(fetchLog'[Len(fetchLog')].body[j]).val])
       ]_vars
    /\ [](Returned =>
            /\ songs[1] = Header
            /\ (page_no.val > end_page.val =>
                  /\ Len(fetchLog) = end_page.val - start_page.val + 1
                  /\ songs = <<Header>> \o RecordsOfPages(fetchLog,
                                                         Len(fetchLog))))

C7_Witness ==
    /\ pc = "returned"
    /\ page_no.val > end_page.val
    /\ Len(fetchLog) = 3
    /\ Len(songs) = 5
    /\ songs[2] # songs[3]

\* C8 as stated: with verbose on, one progress notification per page whose
\* fetch was attempted, and on normal termination exactly one summary whose
\* kind tells a broken loop from an exhausted bound; with verbose off, none.
C8_OneProgressPerAttempt ==
    /\ (~verbose => stdout = <<>>)
    /\ (verbose =>
          /\ OfKind(stdout, {"progress"}) =
                 [k \in DOMAIN fetchLog |-> Progress(fetchLog[k].page.val)]
          /\ (Returned =>
                /\ Len(OfKind(stdout, {"finished", "limit"})) = 1
                /\ stdout[Len(stdout)].kind =
                       IF page_no.val > end_page.val THEN "limit"
                       ELSE "finished"))

\* C8 amended: with verbose on, one progress notification per page whose
\* fetch succeeded (none for a page whose fetch raised), in page order; on
\* normal termination exactly one summary, emitted last, "finished" when the
\* loop was broken by an HTTPError and "limit" when the bound was exhausted;
\* no summary when the call raises; with verbose off, nothing at all.
C8_OneProgressPerFetchedPage ==
    /\ (~verbose => stdout = <<>>)
    /\ (verbose =>
          /\ OfKind(stdout, {"progress"}) =
                 [k \in DOMAIN SelectSeq(fetchLog, LAMBDA f : f.exc = "none")
                     |-> Progress(start_page.val + k - 1)]
          /\ (Returned =>
                /\ Len(OfKind(stdout, {"finished", "limit"})) = 1
                /\ stdout[Len(stdout)] =
                       IF page_no.val > end_page.val
                       THEN LimitReached(end_page.val)
                       ELSE Finished(page_no.val - 1)
                /\ (stdout[Len(stdout)].kind = "finished" <=>
                       (fetchLog # <<>>
                        /\ fetchLog[Len(fetchLog)].exc = "HTTPError")))
          /\ (~Returned => OfKind(stdout, {"finished", "limit"}) = <<>>))

C8_Witness ==
    /\ verbose
    /\ pc = "returned"
    /\ Len(fetchLog) = 3
    /\ fetchLog[3].exc = "HTTPError"
    /\ stdout = <<Progress(1), Progress(2), Finished(2)>>

\* the texts of the <li> items of an entry whose items all have a text
LiTexts(link) == [i \in DOMAIN link.ul.content |-> link.ul.content[i].s]

WellFormed(link) ==
    /\ ~Malformed(link)
    /\ \A i \in DOMAIN link.ul.content : link.ul.content[i].tag = "str"

\* the texts in order, each but the last followed by ", "
JoinedTexts(texts) ==
    Concat([i \in DOMAIN texts |->
               IF i < Len(texts) THEN texts[i] \o <<",", " ">> ELSE texts[i]])

RECURSIVE SumCountSep(_)
SumCountSep(texts) ==
    IF texts = <<>> THEN 0
    ELSE CountSep(Head(texts)) + SumCountSep(Tail(texts))

\* C9 as stated: for an entry with k artist items, the artist field is the
\* texts in order joined by ", " and holds exactly k-1 occurrences of ", "
\* (k >= 1); with no item it is the empty string and a record is produced.
C9_ExactlyKMinusOneSeparators ==
    (pc = "track_done" /\ WellFormed(item_link)) =>
        LET texts == LiTexts(item_link)
            k == Len(texts)
        IN /\ track.tag = "return"
           /\ track.val[2] = JoinedTexts(texts)
           /\ (k >= 1 => CountSep(track.val[2]) = k - 1)
           /\ (k = 0 => track.val[2] = <<>>)

\* C9 amended: the artist field is the texts in order joined by ", "; for
\* k >= 1 it holds k-1 occurrences of ", " more than the texts themselves
\* hold (exactly k-1 when no text contains ", "); with no item it is the
\* empty string and a record is produced.
C9_SeparatorsBeyondTexts ==
    (pc = "track_done" /\ WellFormed(item_link)) =>
        LET texts == LiTexts(item_link)
            k == Len(texts)
        IN /\ track.tag = "return"
           /\ track.val[2] = JoinedTexts(texts)
           /\ (k >= 1 =>
                 CountSep(track.val[2]) = k - 1 + SumCountSep(texts))
           /\ (k = 0 => track.val[2] = <<>>)

C9_Witness ==
    /\ pc = "track_done"
    /\ WellFormed(item_link)
    /\ Len(item_link.ul.content) = 2
    /\ track.tag = "return"
    /\ track.val[2] = <<"a", ",", " ", "b", ",", " ", "c">>

\* C10: a call with a valid range ends (returns or raises) after at most
\* end_page - start_page + 1 fetches; page_no never decreases and grows by
\* exactly 1 with each page processed to the end.
C10_Terminates ==
    /\ <>(pc \in {"returned", "written", "raised"})
    /\ [](ValidRange(start_page, end_page) =>
            Len(fetchLog) <= end_page.val - start_page.val + 1)
    /\ [][pc = "loop" =>
            /\ page_no'.val \in {page_no.val, page_no.val + 1}
            /\ (page_no'.val = page_no.val + 1 <=>
                  (pc' = "loop" /\ Len(fetchLog') = Len(fetchLog) + 1))
            /\ (page_no'.val = page_no.val => pc' # "loop")
       ]_vars

C10_Witness ==
    /\ pc = "returned"
    /\ start_page = PyInt(1)
    /\ end_page = PyInt(3)
    /\ Len(fetchLog) = 3
    /\ page_no = PyInt(4)

====
